---- MODULE Spec2Model ----
(***************************************************************************)
(* Model of the scraping orchestration engine, src/scraper.py              *)
(* (class PlaywrightScraper), and of the two ways a caller drives it:      *)
(* a direct call of scrape() and `async with PlaywrightScraper(...)`.      *)
(*                                                                         *)
(* Browser operations are calls into the Playwright driver; each of them   *)
(* may raise, which the model renders as a nondeterministic outcome.       *)
(*                                                                         *)
(* Spec is one run of scrape(); ReuseSpec lets the caller call scrape()    *)
(* again on the same object; ServerSpec is the control layer of            *)
(* src/run_server.py, its task records and background threads.             *)
(***************************************************************************)
EXTENDS Integers, Sequences, FiniteSets, TLC

(***************************************************************************)
(* Bounds of the model.                                                    *)
(***************************************************************************)
MaxUrls == 3            \* longest configured URL list
MaxPagesLimit == 3      \* largest configured max_pages
MaxCallerCloses == 1    \* explicit close() calls the caller makes after scrape()
MaxRuns == 2            \* scrape() calls on one scraper object
MaxTasks == 2           \* tasks the server accepts
MaxClock == 1           \* milliseconds the server's clock advances

(***************************************************************************)
(* Small helpers.                                                          *)
(***************************************************************************)
Min(a, b) == IF a <= b THEN a ELSE b

Max(a, b) == IF a >= b THEN a ELSE b

Take(s, n) == SubSeq(s, 1, Min(Max(n, 0), Len(s)))

\* The slice without its limit.
PySlicePrefix_unlimited(s, m) == s

\* Python's s[:m]: the first m items, or all but the last -m when m < 0.
PySlicePrefix(s, m) == IF m >= 0 THEN Take(s, m) ELSE Take(s, Len(s) + m)

\* A Python dict is a function from its keys; {} is the function on {}.
EmptyDict == <<>>

\* Truthiness of a dict, list or string: it is not empty.
Truthy(d) == DOMAIN d # {}

(***************************************************************************)
(* Strings are sequences of characters; "s" is a blank, "n" a newline.     *)
(***************************************************************************)
IsSpace(c) == c \in {"s", "n"}

RECURSIVE LStrip(_)
LStrip(t) == IF t # <<>> /\ IsSpace(Head(t)) THEN LStrip(Tail(t)) ELSE t

RECURSIVE RStrip(_)
RStrip(t) ==
  IF t # <<>> /\ IsSpace(t[Len(t)]) THEN RStrip(SubSeq(t, 1, Len(t) - 1)) ELSE t

\* str.strip()
Strip(t) == RStrip(LStrip(t))

(***************************************************************************)
(* URLs.  An absolute URL is [origin, path]; the path is a sequence of     *)
(* segments.  A reference (the value of href or src) is absolute, rooted   *)
(* ("/p/1"), relative ("p/1") or the empty string.                         *)
(***************************************************************************)
Origin == "https://x.test"

OtherOrigin == "https://cdn.test"

Url(i) == [origin |-> Origin, path |-> <<"a", ToString(i)>>]

NoUrl == [origin |-> "", path |-> <<>>]

AbsRef(o, p) == [kind |-> "abs", origin |-> o, path |-> p]

RootRef(p) == [kind |-> "root", origin |-> "", path |-> p]

RelRef(p) == [kind |-> "rel", origin |-> "", path |-> p]

EmptyRef == [kind |-> "empty", origin |-> "", path |-> <<>>]

\* The reference handed on as it stands.
urljoin_unresolved(base, ref) == [origin |-> ref.origin, path |-> ref.path]

\* urllib.parse.urljoin(base, ref) on the reference shapes above.
urljoin(base, ref) ==
  CASE ref.kind = "abs"   -> [origin |-> ref.origin, path |-> ref.path]
    [] ref.kind = "root"  -> [origin |-> base.origin, path |-> ref.path]
    [] ref.kind = "rel"   ->
         [origin |-> base.origin,
          path |-> SubSeq(base.path, 1, Len(base.path) - 1) \o ref.path]
    [] ref.kind = "empty" -> base

(***************************************************************************)
(* The rendered documents.  An element is what its handle returns:         *)
(* text_content(), inner_html(), its attributes, and whether an operation  *)
(* on the handle raises (broken).                                          *)
(***************************************************************************)
NoAttrs == EmptyDict

Element(t, h, a) == [broken |-> FALSE, text |-> t, html |-> h, attrs |-> a]

ElBroken == [broken |-> TRUE, text |-> <<>>, html |-> <<>>, attrs |-> NoAttrs]

\* <span></span>: no text, no markup, no attribute.
ElBlank == Element(<<>>, <<>>, NoAttrs)

\* <p> </p>: white space only.
ElSpace == Element(<<"s">>, <<"s", "n">>, NoAttrs)

ElHeading(word) == Element(<<"n", word, "s">>, <<word>>, NoAttrs)

ElLink(ref) ==
  Element(<<"more">>, <<"more">>, ("href" :> ref) @@ ("data-id" :> EmptyRef))

ElImg(ref) == Element(<<>>, <<>>, ("src" :> ref) @@ ("href" :> EmptyRef))

\* The names of the attribute universe that start with "data-".
DataAttrNames == {"data-id"}

\* The pages of the site come in two layouts.
FirstLayout(url) == url.path[2] \in {ToString(2 * i - 1) : i \in 1..MaxUrls}

\* page.query_selector_all(selector) on the page at url, when it succeeds.
Content(url, selector) ==
  CASE selector = "h1"  ->
         IF FirstLayout(url) THEN <<ElHeading("Hello")>> ELSE <<ElHeading("World")>>
    [] selector = "a"   ->
         IF FirstLayout(url)
           THEN <<ElBroken, ElLink(RootRef(<<"p", "1">>)), ElBlank,
                  ElLink(AbsRef(OtherOrigin, <<"q">>))>>
           ELSE <<ElBlank, ElLink(RelRef(<<"r">>))>>
    [] selector = "img" -> <<ElImg(RelRef(<<"i.png">>)), ElSpace, ElBroken>>
    [] OTHER            -> <<>>

\* element.get_attribute(name): the value, or None (here: the empty reference,
\* which is as falsy as None and as the empty string).
get_attribute(element, name) ==
  IF name \in DOMAIN element.attrs THEN element.attrs[name] ELSE EmptyRef

\* The second element.evaluate: the attributes whose name starts with "data-".
data_attributes(element) ==
  [n \in (DOMAIN element.attrs) \cap DataAttrNames |-> element.attrs[n]]

\* if value: data_item[key] = item
Field(value_truthy, key, item) == IF value_truthy THEN key :> item ELSE EmptyDict

\* PlaywrightScraper.extract_element_data; now is the event loop's clock.
extract_element_data(element, selector, index, url, now) ==
  IF element.broken
    THEN EmptyDict
    ELSE [url |-> url, selector |-> selector, index |-> index, timestamp |-> now]
         @@ Field(Truthy(element.text), "text", Strip(element.text))
         @@ Field(Truthy(element.html), "html", Strip(element.html))
         @@ Field(Truthy(element.attrs), "attributes", element.attrs)
         @@ Field(get_attribute(element, "href").kind # "empty", "link",
                  urljoin(url, get_attribute(element, "href")))
         @@ Field(get_attribute(element, "src").kind # "empty", "image_src",
                  urljoin(url, get_attribute(element, "src")))
         @@ Field(Truthy(data_attributes(element)), "data_attributes",
                  data_attributes(element))

\* The inner loop numbering the records it emits instead of the elements.
RECURSIVE extract_elements_renumbered(_, _, _, _, _)
extract_elements_renumbered(elements, selector, url, now, i) ==
  IF elements = <<>>
    THEN <<>>
    ELSE LET data_item == extract_element_data(Head(elements), selector, i, url, now)
         IN IF Truthy(data_item)
              THEN <<data_item>> \o
                   extract_elements_renumbered(Tail(elements), selector, url, now, i + 1)
              ELSE extract_elements_renumbered(Tail(elements), selector, url, now, i)

\* The inner loop ended by the first element whose extraction fails.
RECURSIVE extract_elements_abort(_, _, _, _, _)
extract_elements_abort(elements, selector, url, now, i) ==
  IF i >= Len(elements)
    THEN <<>>
    ELSE LET data_item == extract_element_data(elements[i + 1], selector, i, url, now)
         IN IF Truthy(data_item)
              THEN <<data_item>>
                   \o extract_elements_abort(elements, selector, url, now, i + 1)
              ELSE <<>>

\* The inner loop of scrape_page: for i, element in enumerate(elements),
\* append the element's data_item when it is truthy.
RECURSIVE extract_elements(_, _, _, _, _)
extract_elements(elements, selector, url, now, i) ==
  IF i >= Len(elements)
    THEN <<>>
    ELSE LET data_item == extract_element_data(elements[i + 1], selector, i, url, now)
         IN (IF Truthy(data_item) THEN <<data_item>> ELSE <<>>)
            \o extract_elements(elements, selector, url, now, i + 1)

(***************************************************************************)
(* The requests (ScrapingConfig, src/config.py).  url is a str or a list   *)
(* of str; scrape() is handed the config as constructed, validate() is     *)
(* not called on the way.                                                  *)
(***************************************************************************)
StrUrl(u) == [isStr |-> TRUE, str |-> u, list |-> <<>>]

ListUrl(l) == [isStr |-> FALSE, str |-> NoUrl, list |-> l]

UrlInputs ==
  {StrUrl(Url(1))}
    \cup {ListUrl([i \in 1..n |-> Url(i)]) : n \in 0..MaxUrls}
    \cup {ListUrl([i \in 1..MaxUrls |-> Url(MaxUrls + 1 - i)])}

SelectorInputs == {<<"h1">>, <<"a", "h1">>, <<".missing">>, <<"img", "a">>}

MaxPagesInputs == (-1)..MaxPagesLimit

WaitForSelectorInputs == {"", ".ready"}

\* timeout: int = 30000, in milliseconds
TimeoutInputs == {30000}

Configs ==
  [url : UrlInputs, selectors : SelectorInputs, max_pages : MaxPagesInputs,
   delay : {1}, timeout : TimeoutInputs,
   wait_for_selector : WaitForSelectorInputs]

VARIABLES
  cfg,               \* self.config
  usage,             \* who drives the scraper: "direct" (a bare scrape() call),
                     \* "async_with", "main" (main.py), "run_scraping_task"
  pc,                \* where the caller / the coroutine stands
  playwright,        \* self.playwright: a handle, 0 while the attribute is unset
  browser,           \* self.browser: a handle, 0 for None
  context,           \* self.context: a handle, 0 for None
  closes,            \* per kind, per handle created: how often it was closed
  pages,             \* per page handle created: how often page.close() was called
  page,              \* scrape_page's local page, 0 outside a visit
  urls,              \* scrape's local urls
  idx,               \* number of completed iterations of scrape's loop
  all_scraped_data,  \* scrape's local all_scraped_data
  scraped_data,      \* scrape_page's local scraped_data
  selIdx,            \* position of scrape_page's loop over config.selectors
  exc,               \* the exception in flight, "" when there is none
  outcome,           \* what scrape() / the with statement handed its caller
  result,            \* the list scrape() returned
  error,             \* the exception the caller received
  firstErr,          \* history: the first failure of the run
  visited,           \* history: the URLs navigated to
  selFailed,         \* history: <<visit, selector position>> whose lookup raised
  closeCalls,        \* history: calls of close()
  callerCloses,      \* history: close() calls made by the caller itself
  trace,             \* history: the operations awaited, in order
  overlay,           \* handle_page_interactions: its loop over cookie_selectors
  interactFailed,    \* history: an operation of the visit's interactions raised
  pageContext,       \* history: per page handle, the context it was opened in
  reported,          \* what the invoking layer reported: its exit or task status
  runs,              \* history: calls of scrape() on this scraper object
  closedContexts,    \* history: the contexts whose close() has returned
  clock,             \* run_server: int(time.time() * 1000)
  scraping_tasks,    \* run_server: the task records, by task_id
  results_storage,   \* run_server: the result entries, by task_id
  threads            \* run_server: the background threads started, in order

vars ==
  <<cfg, usage, pc, playwright, browser, context, closes, pages, page, urls, idx,
    all_scraped_data, scraped_data, selIdx, exc, outcome, result, error,
    firstErr, visited, selFailed, closeCalls, callerCloses, trace, overlay,
    interactFailed, pageContext, reported, runs, closedContexts, clock,
    scraping_tasks, results_storage, threads>>

\* The globals of run_server.py and the threads it started.
serverVars == <<clock, scraping_tasks, results_storage, threads>>

Event(e, a) == [ev |-> e, arg |-> a]

\* asyncio.get_event_loop().time(), as a logical clock
Now == Len(trace)

Usages == {"direct", "async_with", "main", "run_scraping_task"}

\* The locals of handle_page_interactions outside a call of it.
OverlayIdle == [pattern |-> 0, looping |-> FALSE, clicks |-> 0, dismissals |-> 0]

\* run_server.py as imported: no task, no result, no thread.
ServerIdle ==
  /\ clock = 0
  /\ scraping_tasks = <<>>
  /\ results_storage = <<>>
  /\ threads = <<>>

\* PlaywrightScraper.__init__
Init ==
  /\ cfg \in Configs
  /\ usage \in Usages
  /\ pc = "start"
  /\ playwright = 0
  /\ browser = 0
  /\ context = 0
  /\ closes = [playwright |-> <<>>, browser |-> <<>>, context |-> <<>>]
  /\ pages = <<>>
  /\ page = 0
  /\ urls = <<>>
  /\ idx = 0
  /\ all_scraped_data = <<>>
  /\ scraped_data = <<>>
  /\ selIdx = 0
  /\ exc = ""
  /\ outcome = "pending"
  /\ result = <<>>
  /\ error = ""
  /\ firstErr = ""
  /\ visited = <<>>
  /\ selFailed = {}
  /\ closeCalls = 0
  /\ callerCloses = 0
  /\ trace = <<>>
  /\ overlay = OverlayIdle
  /\ interactFailed = FALSE
  /\ pageContext = <<>>
  /\ reported = "pending"
  /\ runs = 1
  /\ closedContexts = {}
  /\ ServerIdle

(***************************************************************************)
(* The browser session: initialize_browser and close.                      *)
(***************************************************************************)
InitOutcomes == {"ok", "start_failed", "launch_failed", "new_context_failed"}

Log(e, a) == trace' = Append(trace, Event(e, a))

\* PlaywrightScraper.initialize_browser: start the driver, launch the browser,
\* create the context; the first call that raises ends it, and what was assigned
\* before stays assigned.
initialize_browser(oc) ==
  LET startOk   == oc # "start_failed"
      launchOk  == oc \notin {"start_failed", "launch_failed"}
      contextOk == oc = "ok"
  IN /\ playwright' = IF startOk THEN Len(closes.playwright) + 1 ELSE playwright
     /\ browser' = IF launchOk THEN Len(closes.browser) + 1 ELSE browser
     /\ context' = IF contextOk THEN Len(closes.context) + 1 ELSE context
     /\ closes' =
          [playwright |-> IF startOk THEN Append(closes.playwright, 0)
                                     ELSE closes.playwright,
           browser    |-> IF launchOk THEN Append(closes.browser, 0)
                                      ELSE closes.browser,
           context    |-> IF contextOk THEN Append(closes.context, 0)
                                       ELSE closes.context]
     /\ Log("initialize_browser", 0)

CloseFailures == {"none", "context", "browser", "playwright"}

\* Can close() meet the failure failAt: is the operation that raises called?
CloseCanFail(failAt) ==
  /\ failAt = "context" => context # 0
  /\ failAt = "browser" => browser # 0
  /\ failAt = "playwright" => playwright # 0

Closed(counts, h) == [counts EXCEPT ![h] = @ + 1]

\* PlaywrightScraper.close: context.close(), browser.close(), playwright.stop()
\* for each handle that is set, inside one try; the first call that raises ends
\* it, the exception is logged and dropped.  The fields stay as they are.
close(failAt) ==
  LET contextTried    == context # 0
      browserTried    == browser # 0 /\ failAt # "context"
      playwrightTried == playwright # 0 /\ failAt \notin {"context", "browser"}
  IN /\ CloseCanFail(failAt)
     /\ closes' =
          [context    |-> IF contextTried THEN Closed(closes.context, context)
                                          ELSE closes.context,
           browser    |-> IF browserTried THEN Closed(closes.browser, browser)
                                          ELSE closes.browser,
           playwright |-> IF playwrightTried
                            THEN Closed(closes.playwright, playwright)
                            ELSE closes.playwright]
     /\ closedContexts' =
          IF contextTried /\ failAt # "context"
            THEN closedContexts \cup {context}
            ELSE closedContexts
     /\ closeCalls' = closeCalls + 1
     /\ Log("close", 0)
     /\ UNCHANGED <<playwright, browser, context>>

(***************************************************************************)
(* The caller.                                                             *)
(***************************************************************************)
\* PlaywrightScraper.__aenter__: an exception leaves the with statement
\* before its body, and __aexit__ is not run.
AEnter ==
  /\ pc = "start"
  /\ usage = "async_with"
  /\ \E oc \in InitOutcomes :
       /\ initialize_browser(oc)
       /\ IF oc = "ok"
            THEN /\ pc' = "with_body"
                 /\ UNCHANGED <<outcome, error, firstErr>>
            ELSE /\ pc' = "enter_failed"
                 /\ outcome' = "raised"
                 /\ error' = oc
                 /\ firstErr' = oc
  /\ UNCHANGED <<cfg, usage, pages, page, urls, idx, all_scraped_data,
                 scraped_data, selIdx, exc, result, visited, selFailed,
                 closeCalls, callerCloses>>
  /\ UNCHANGED <<overlay, interactFailed, pageContext, reported>>
  /\ UNCHANGED <<runs, closedContexts, serverVars>>

\* PlaywrightScraper.__aexit__: close(); returns None, so the body's
\* exception, if any, goes on to the caller.
AExit ==
  /\ pc = "scrape_exit"
  /\ usage = "async_with"
  /\ \E failAt \in CloseFailures : close(failAt)
  /\ pc' = "done"
  /\ UNCHANGED <<cfg, usage, pages, page, urls, idx, all_scraped_data,
                 scraped_data, selIdx, exc, outcome, result, error, firstErr,
                 visited, selFailed, callerCloses>>
  /\ UNCHANGED <<overlay, interactFailed, pageContext, reported>>
  /\ UNCHANGED <<runs, serverVars>>

\* The caller calls close() itself after scrape() returned or raised.
CallerClose ==
  /\ pc = "scrape_exit"
  /\ usage = "direct"
  /\ callerCloses < MaxCallerCloses
  /\ \E failAt \in CloseFailures : close(failAt)
  /\ callerCloses' = callerCloses + 1
  /\ UNCHANGED <<cfg, usage, pc, pages, page, urls, idx, all_scraped_data,
                 scraped_data, selIdx, exc, outcome, result, error, firstErr,
                 visited, selFailed>>
  /\ UNCHANGED <<overlay, interactFailed, pageContext, reported>>
  /\ UNCHANGED <<runs, serverVars>>

(***************************************************************************)
(* scrape(): the run.                                                      *)
(***************************************************************************)
\* urls = [self.config.url] if isinstance(self.config.url, str) else self.config.url
normalize_urls(url) == IF url.isStr THEN <<url.str>> ELSE url.list

\* urls[:self.config.max_pages]
PagesToVisit == PySlicePrefix(urls, cfg.max_pages)

FirstOf(e) == IF firstErr = "" THEN e ELSE firstErr

\* An exception raised inside scrape's try: logged, re-raised, and the finally
\* clause runs before it leaves scrape.
RaiseInScrape(e) ==
  /\ exc' = e
  /\ firstErr' = FirstOf(e)
  /\ pc' = "scrape_finally"

\* The open repeated on every call of scrape().
NeedsOpen_always == TRUE

\* if not self.browser
NeedsOpen == browser = 0

\* scrape() going on into its loop after an open that failed.
ScrapeEnter_ignoring_open_failure ==
  /\ \/ pc = "start" /\ usage # "async_with"
     \/ pc = "with_body"
  /\ IF NeedsOpen
       THEN \E oc \in InitOutcomes :
              /\ initialize_browser(oc)
              /\ firstErr' = IF oc = "ok" THEN firstErr ELSE oc
       ELSE UNCHANGED <<playwright, browser, context, closes, trace, firstErr>>
  /\ pc' = "loop"
  /\ urls' = normalize_urls(cfg.url)
  /\ all_scraped_data' = <<>>
  /\ idx' = 0
  /\ UNCHANGED <<cfg, usage, pages, page, scraped_data, selIdx, exc, result,
                 visited, selFailed, closeCalls, callerCloses, outcome, error>>
  /\ UNCHANGED <<overlay, interactFailed, pageContext, reported>>
  /\ UNCHANGED <<runs, closedContexts, serverVars>>

\* scrape(), up to the loop: the lazy open stands before the try, so an
\* exception of initialize_browser leaves scrape at once.
ScrapeEnter ==
  /\ \/ pc = "start" /\ usage # "async_with"
     \/ pc = "with_body"
  /\ IF NeedsOpen
       THEN \E oc \in InitOutcomes :
              /\ initialize_browser(oc)
              /\ IF oc = "ok"
                   THEN /\ pc' = "loop"
                        /\ UNCHANGED <<outcome, error, firstErr>>
                   ELSE /\ pc' = "scrape_exit"
                        /\ outcome' = "raised"
                        /\ error' = oc
                        /\ firstErr' = oc
       ELSE /\ pc' = "loop"
            /\ UNCHANGED <<playwright, browser, context, closes, trace,
                           outcome, error, firstErr>>
  /\ urls' = normalize_urls(cfg.url)
  /\ all_scraped_data' = <<>>
  /\ idx' = 0
  /\ UNCHANGED <<cfg, usage, pages, page, scraped_data, selIdx, exc, result,
                 visited, selFailed, closeCalls, callerCloses>>
  /\ UNCHANGED <<overlay, interactFailed, pageContext, reported>>
  /\ UNCHANGED <<runs, closedContexts, serverVars>>

\* A context that hands out pages after its close() has returned.
ContextOpen_always == TRUE

\* self.context.new_page() can return a page only while the context is open:
\* on a context whose close() has returned, Playwright raises.
ContextOpen == context \notin closedContexts

\* The loop takes its next url and calls scrape_page, which checks the context
\* and opens a page; both stand before scrape_page's try.
NextUrl ==
  /\ pc = "loop"
  /\ idx < Len(PagesToVisit)
  /\ IF context = 0
       THEN /\ RaiseInScrape("context_not_initialized")
            /\ UNCHANGED <<pages, page, scraped_data, trace, pageContext>>
       ELSE \E ok \in (IF ContextOpen THEN BOOLEAN ELSE {FALSE}) :
              IF ok
                THEN /\ pages' = Append(pages, 0)
                     /\ pageContext' = Append(pageContext, context)
                     /\ page' = Len(pages) + 1
                     /\ scraped_data' = <<>>
                     /\ pc' = "goto"
                     /\ Log("new_page", Len(pages) + 1)
                     /\ UNCHANGED <<exc, firstErr>>
                ELSE /\ RaiseInScrape("new_page_failed")
                     /\ Log("new_page", 0)
                     /\ UNCHANGED <<pages, page, scraped_data, pageContext>>
  /\ interactFailed' = FALSE
  /\ UNCHANGED <<cfg, usage, playwright, browser, context, closes, urls, idx,
                 all_scraped_data, selIdx, outcome, result, error, visited,
                 selFailed, closeCalls, callerCloses, overlay, reported>>
  /\ UNCHANGED <<runs, closedContexts, serverVars>>

\* The loop is exhausted: return all_scraped_data, through the finally clause.
LoopDone ==
  /\ pc = "loop"
  /\ idx >= Len(PagesToVisit)
  /\ pc' = "scrape_finally"
  /\ UNCHANGED <<cfg, usage, playwright, browser, context, closes, pages, page,
                 urls, idx, all_scraped_data, scraped_data, selIdx, exc, outcome,
                 result, error, firstErr, visited, selFailed, closeCalls,
                 callerCloses, trace>>
  /\ UNCHANGED <<overlay, interactFailed, pageContext, reported>>
  /\ UNCHANGED <<runs, closedContexts, serverVars>>

\* After scrape_page returned: extend the result when page_data is not empty,
\* sleep config.delay when the configured list has more than one url.
AfterPage ==
  /\ pc = "page_returned"
  /\ all_scraped_data' =
       IF Truthy(scraped_data) THEN all_scraped_data \o scraped_data
                               ELSE all_scraped_data
  /\ IF Len(urls) > 1 THEN Log("sleep", idx + 1) ELSE UNCHANGED trace
  /\ idx' = idx + 1
  /\ pc' = "loop"
  /\ UNCHANGED <<cfg, usage, playwright, browser, context, closes, pages, page,
                 urls, scraped_data, selIdx, exc, outcome, result, error,
                 firstErr, visited, selFailed, closeCalls, callerCloses>>
  /\ UNCHANGED <<overlay, interactFailed, pageContext, reported>>
  /\ UNCHANGED <<runs, closedContexts, serverVars>>

\* finally: await self.close(); then the return value or the exception in
\* flight reaches the caller of scrape().
ScrapeFinally ==
  /\ pc = "scrape_finally"
  /\ \E failAt \in CloseFailures : close(failAt)
  /\ pc' = "scrape_exit"
  /\ outcome' = IF exc = "" THEN "returned" ELSE "raised"
  /\ result' = IF exc = "" THEN all_scraped_data ELSE result
  /\ error' = exc
  /\ exc' = ""
  /\ UNCHANGED <<cfg, usage, pages, page, urls, idx, all_scraped_data,
                 scraped_data, selIdx, firstErr, visited, selFailed,
                 callerCloses>>
  /\ UNCHANGED <<overlay, interactFailed, pageContext, reported>>
  /\ UNCHANGED <<runs, serverVars>>

(***************************************************************************)
(* scrape_page(url): one visit.                                            *)
(***************************************************************************)
CurrentUrl == PagesToVisit[idx + 1]

\* The exception leaving scrape_page with no finally clause on its way.
RaiseInVisit_no_finally(e) ==
  /\ exc' = e
  /\ firstErr' = FirstOf(e)
  /\ pc' = "scrape_finally"

\* An exception raised inside scrape_page's try: logged, re-raised, and the
\* finally clause (page.close()) runs before it leaves scrape_page.
RaiseInVisit(e) ==
  /\ exc' = e
  /\ firstErr' = FirstOf(e)
  /\ pc' = "page_finally"

\* A navigation with no timeout on a server that never answers: the await
\* does not return.
Navigate_never_resolving ==
  /\ pc = "goto"
  /\ UNCHANGED vars

\* The navigation whose failure is logged and not raised.
Navigate_ignoring_failure ==
  /\ pc = "goto"
  /\ visited' = Append(visited, CurrentUrl)
  /\ Log("goto", idx + 1)
  /\ \E ok \in BOOLEAN :
       firstErr' = IF ok THEN firstErr ELSE FirstOf("goto_failed")
  /\ pc' = IF cfg.wait_for_selector # "" THEN "wait_for_selector"
                                          ELSE "networkidle"
  /\ UNCHANGED <<cfg, usage, playwright, browser, context, closes, pages, page,
                 urls, idx, all_scraped_data, scraped_data, selIdx, outcome,
                 result, error, selFailed, closeCalls, callerCloses, exc>>
  /\ UNCHANGED <<overlay, interactFailed, pageContext, reported>>
  /\ UNCHANGED <<runs, closedContexts, serverVars>>

\* await page.goto(url, timeout=self.config.timeout)
Navigate ==
  /\ pc = "goto"
  /\ visited' = Append(visited, CurrentUrl)
  /\ Log("goto", idx + 1)
  /\ \E ok \in BOOLEAN :
       IF ok
         THEN /\ pc' = IF cfg.wait_for_selector # "" THEN "wait_for_selector"
                                                     ELSE "networkidle"
              /\ UNCHANGED <<exc, firstErr>>
         ELSE RaiseInVisit("goto_failed")
  /\ UNCHANGED <<cfg, usage, playwright, browser, context, closes, pages, page,
                 urls, idx, all_scraped_data, scraped_data, selIdx, outcome,
                 result, error, selFailed, closeCalls, callerCloses>>
  /\ UNCHANGED <<overlay, interactFailed, pageContext, reported>>
  /\ UNCHANGED <<runs, closedContexts, serverVars>>

\* if self.config.wait_for_selector: await page.wait_for_selector(...)
WaitForSelector ==
  /\ pc = "wait_for_selector"
  /\ Log("wait_for_selector", idx + 1)
  /\ \E ok \in BOOLEAN :
       IF ok
         THEN /\ pc' = "networkidle"
              /\ UNCHANGED <<exc, firstErr>>
         ELSE RaiseInVisit("wait_for_selector_timeout")
  /\ UNCHANGED <<cfg, usage, playwright, browser, context, closes, pages, page,
                 urls, idx, all_scraped_data, scraped_data, selIdx, outcome,
                 result, error, visited, selFailed, closeCalls, callerCloses>>
  /\ UNCHANGED <<overlay, interactFailed, pageContext, reported>>
  /\ UNCHANGED <<runs, closedContexts, serverVars>>

\* handle_page_interactions is entered: the loop stands at its first pattern.
OverlayStart == [pattern |-> 1, looping |-> TRUE, clicks |-> 0, dismissals |-> 0]

\* await page.wait_for_load_state('networkidle'), then the call of
\* handle_page_interactions
NetworkIdle ==
  /\ pc = "networkidle"
  /\ Log("networkidle", idx + 1)
  /\ \E ok \in BOOLEAN :
       IF ok
         THEN /\ pc' = "interact"
              /\ overlay' = OverlayStart
              /\ UNCHANGED <<exc, firstErr>>
         ELSE /\ RaiseInVisit("networkidle_failed")
              /\ UNCHANGED overlay
  /\ UNCHANGED <<cfg, usage, playwright, browser, context, closes, pages, page,
                 urls, idx, all_scraped_data, scraped_data, selIdx, outcome,
                 result, error, visited, selFailed, closeCalls, callerCloses>>
  /\ UNCHANGED <<interactFailed, pageContext, reported>>
  /\ UNCHANGED <<runs, closedContexts, serverVars>>

(***************************************************************************)
(* handle_page_interactions(page).                                         *)
(***************************************************************************)
cookie_selectors ==
  <<"[id*=cookie]", "[class*=cookie]", "[id*=consent]", "[class*=consent]",
    "button[aria-label*=Accept]", "button[aria-label*=Close]">>

\* What one pattern meets: query_selector raises or finds nothing, is_visible
\* raises or answers no, click raises or succeeds.
OverlayOutcomes ==
  {"lookup_raises", "no_element", "visibility_raises", "hidden", "click_raises",
   "clicked"}

OverlayRaised == {"lookup_raises", "visibility_raises", "click_raises"}

\* The result of one iteration; stop tells whether the loop ends with it.
OverlayStep(oc, stop) ==
  /\ overlay' =
       [pattern    |-> IF stop THEN overlay.pattern ELSE overlay.pattern + 1,
        looping    |-> ~stop,
        clicks     |-> overlay.clicks
                         + (IF oc \in {"click_raises", "clicked"} THEN 1 ELSE 0),
        dismissals |-> overlay.dismissals + (IF oc = "clicked" THEN 1 ELSE 0)]
  /\ interactFailed' = (interactFailed \/ oc \in OverlayRaised)

\* The loop without its break.
DismissOverlay_no_break ==
  /\ pc = "interact"
  /\ overlay.pattern <= Len(cookie_selectors)
  /\ \E oc \in OverlayOutcomes : OverlayStep(oc, FALSE)
  /\ UNCHANGED <<cfg, usage, pc, playwright, browser, context, closes, pages,
                 page, urls, idx, all_scraped_data, scraped_data, selIdx, exc,
                 outcome, result, error, firstErr, visited, selFailed,
                 closeCalls, callerCloses, trace, pageContext, reported>>
  /\ UNCHANGED <<runs, closedContexts, serverVars>>

\* One iteration of `for selector in cookie_selectors`: a click that succeeds
\* is followed by break, anything that raises by `except: continue`.
DismissOverlay ==
  /\ pc = "interact"
  /\ overlay.looping
  /\ overlay.pattern <= Len(cookie_selectors)
  /\ \E oc \in OverlayOutcomes : OverlayStep(oc, oc = "clicked")
  /\ UNCHANGED <<cfg, usage, pc, playwright, browser, context, closes, pages,
                 page, urls, idx, all_scraped_data, scraped_data, selIdx, exc,
                 outcome, result, error, firstErr, visited, selFailed,
                 closeCalls, callerCloses, trace, pageContext, reported>>
  /\ UNCHANGED <<runs, closedContexts, serverVars>>

ScrollOutcomes == {"ok", "scroll_down_raises", "scroll_back_raises"}

\* The scroll sequence with no try around it.
Interact_unguarded ==
  /\ pc = "interact"
  /\ ~overlay.looping \/ overlay.pattern > Len(cookie_selectors)
  /\ Log("interact", idx + 1)
  /\ overlay' = OverlayIdle
  /\ \E oc \in ScrollOutcomes :
       /\ interactFailed' = (interactFailed \/ oc # "ok")
       /\ IF oc = "ok"
            THEN /\ pc' = "extract"
                 /\ selIdx' = 1
                 /\ UNCHANGED <<exc, firstErr>>
            ELSE /\ RaiseInVisit(oc)
                 /\ UNCHANGED selIdx
  /\ UNCHANGED <<cfg, usage, playwright, browser, context, closes, pages, page,
                 urls, idx, all_scraped_data, scraped_data, outcome, result,
                 error, visited, selFailed, closeCalls, callerCloses,
                 pageContext, reported>>
  /\ UNCHANGED <<runs, closedContexts, serverVars>>

\* The rest of handle_page_interactions, after the loop: scroll down, sleep,
\* scroll back.  Whatever raises is caught by the outer except and logged, so
\* the call returns and scrape_page goes on to the loop over the selectors.
Interact ==
  /\ pc = "interact"
  /\ ~overlay.looping \/ overlay.pattern > Len(cookie_selectors)
  /\ Log("interact", idx + 1)
  /\ overlay' = OverlayIdle
  /\ \E oc \in ScrollOutcomes : interactFailed' = (interactFailed \/ oc # "ok")
  /\ pc' = "extract"
  /\ selIdx' = 1
  /\ UNCHANGED <<cfg, usage, playwright, browser, context, closes, pages, page,
                 urls, idx, all_scraped_data, scraped_data, exc, outcome,
                 result, error, firstErr, visited, selFailed, closeCalls,
                 callerCloses, pageContext, reported>>
  /\ UNCHANGED <<runs, closedContexts, serverVars>>

(***************************************************************************)
(* scrape_page(url), continued: extraction and release.                    *)
(***************************************************************************)
\* The loop over the selectors inside one try: the first lookup that raises
\* ends it.
ExtractSelector_abort_on_failure ==
  /\ pc = "extract"
  /\ selIdx <= Len(cfg.selectors)
  /\ Log("query_selector_all", selIdx)
  /\ \E ok \in BOOLEAN :
       IF ok
         THEN /\ scraped_data' =
                   scraped_data \o
                     extract_elements(Content(CurrentUrl, cfg.selectors[selIdx]),
                                      cfg.selectors[selIdx], CurrentUrl, Now, 0)
              /\ selIdx' = selIdx + 1
              /\ UNCHANGED selFailed
         ELSE /\ selFailed' = selFailed \cup {<<idx + 1, selIdx>>}
              /\ selIdx' = Len(cfg.selectors) + 1
              /\ UNCHANGED scraped_data
  /\ UNCHANGED <<cfg, usage, pc, playwright, browser, context, closes, pages,
                 page, urls, idx, all_scraped_data, exc, outcome, result, error,
                 firstErr, visited, closeCalls, callerCloses>>
  /\ UNCHANGED <<overlay, interactFailed, pageContext, reported>>
  /\ UNCHANGED <<runs, closedContexts, serverVars>>

\* One iteration of `for selector in self.config.selectors`: the lookup either
\* raises (warning, continue) or yields the elements, whose records are appended.
ExtractSelector ==
  /\ pc = "extract"
  /\ selIdx <= Len(cfg.selectors)
  /\ Log("query_selector_all", selIdx)
  /\ \E ok \in BOOLEAN :
       IF ok
         THEN /\ scraped_data' =
                   scraped_data \o
                     extract_elements(Content(CurrentUrl, cfg.selectors[selIdx]),
                                      cfg.selectors[selIdx], CurrentUrl, Now, 0)
              /\ UNCHANGED selFailed
         ELSE /\ selFailed' = selFailed \cup {<<idx + 1, selIdx>>}
              /\ UNCHANGED scraped_data
  /\ selIdx' = selIdx + 1
  /\ UNCHANGED <<cfg, usage, pc, playwright, browser, context, closes, pages,
                 page, urls, idx, all_scraped_data, exc, outcome, result, error,
                 firstErr, visited, closeCalls, callerCloses>>
  /\ UNCHANGED <<overlay, interactFailed, pageContext, reported>>
  /\ UNCHANGED <<runs, closedContexts, serverVars>>

\* await asyncio.sleep(random.uniform(0.5, 1.5)), after the last selector
PacingDelay ==
  /\ pc = "extract"
  /\ selIdx > Len(cfg.selectors)
  /\ Log("pacing", idx + 1)
  /\ pc' = "page_finally"
  /\ UNCHANGED <<cfg, usage, playwright, browser, context, closes, pages, page,
                 urls, idx, all_scraped_data, scraped_data, selIdx, exc, outcome,
                 result, error, firstErr, visited, selFailed, closeCalls,
                 callerCloses>>
  /\ UNCHANGED <<overlay, interactFailed, pageContext, reported>>
  /\ UNCHANGED <<runs, closedContexts, serverVars>>

\* page.close() in the except clause only: a visit that succeeds keeps its page.
PageClose_on_error_only ==
  /\ pc = "page_finally"
  /\ IF exc = ""
       THEN /\ pc' = "page_returned"
            /\ UNCHANGED <<pages, trace>>
       ELSE /\ pc' = "scrape_finally"
            /\ pages' = Closed(pages, page)
            /\ Log("page_close", page)
  /\ page' = 0
  /\ UNCHANGED <<cfg, usage, playwright, browser, context, closes, urls, idx,
                 all_scraped_data, scraped_data, selIdx, exc, outcome, result,
                 error, firstErr, visited, selFailed, closeCalls, callerCloses>>
  /\ UNCHANGED <<overlay, interactFailed, pageContext, reported>>
  /\ UNCHANGED <<runs, closedContexts, serverVars>>

\* finally: await page.close().  The call is not guarded: when it raises, its
\* exception is the one that leaves scrape_page, in place of the return value
\* or of the exception in flight.
PageClose ==
  /\ pc = "page_finally"
  /\ pages' = Closed(pages, page)
  /\ page' = 0
  /\ Log("page_close", page)
  /\ \E ok \in BOOLEAN :
       IF ok
         THEN /\ pc' = IF exc = "" THEN "page_returned" ELSE "scrape_finally"
              /\ UNCHANGED <<exc, firstErr>>
         ELSE RaiseInScrape("page_close_failed")
  /\ UNCHANGED <<cfg, usage, playwright, browser, context, closes, urls, idx,
                 all_scraped_data, scraped_data, selIdx, outcome, result, error,
                 visited, selFailed, closeCalls, callerCloses>>
  /\ UNCHANGED <<overlay, interactFailed, pageContext, reported>>
  /\ UNCHANGED <<runs, closedContexts, serverVars>>

(***************************************************************************)
(* The layers that invoke scrape(): main (src/main.py) and                 *)
(* run_scraping_task (src/run_server.py).                                  *)
(***************************************************************************)
\* main, after `await scraper.scrape()`: an exception and an empty list both
\* end in sys.exit(1); otherwise the data is exported, and an exception of
\* the export ends in sys.exit(1) as well.
MainReport ==
  /\ pc = "scrape_exit"
  /\ usage = "main"
  /\ \E exportOk \in BOOLEAN :
       reported' = IF outcome = "raised" THEN "exit_1"
                   ELSE IF ~Truthy(result) THEN "exit_1"
                   ELSE IF exportOk THEN "exit_0" ELSE "exit_1"
  /\ pc' = "done"
  /\ UNCHANGED <<cfg, usage, playwright, browser, context, closes, pages, page,
                 urls, idx, all_scraped_data, scraped_data, selIdx, exc, outcome,
                 result, error, firstErr, visited, selFailed, closeCalls,
                 callerCloses, trace, overlay, interactFailed, pageContext>>
  /\ UNCHANGED <<runs, closedContexts, serverVars>>

\* run_scraping_task, after `loop.run_until_complete(scraper.scrape())`: an
\* exception of scrape, an empty list (raise Exception("No data was scraped
\* ...")) and an exception of the export or of the summary all end in status
\* 'failed'; otherwise the results are stored and the status is 'completed'.
TaskReport ==
  /\ pc = "scrape_exit"
  /\ usage = "run_scraping_task"
  /\ \E exportOk \in BOOLEAN :
       reported' = IF outcome = "raised" THEN "failed"
                   ELSE IF ~Truthy(result) THEN "failed"
                   ELSE IF exportOk THEN "completed" ELSE "failed"
  /\ pc' = "done"
  /\ UNCHANGED <<cfg, usage, playwright, browser, context, closes, pages, page,
                 urls, idx, all_scraped_data, scraped_data, selIdx, exc, outcome,
                 result, error, firstErr, visited, selFailed, closeCalls,
                 callerCloses, trace, overlay, interactFailed, pageContext>>
  /\ UNCHANGED <<runs, closedContexts, serverVars>>

(***************************************************************************)
(* The control layer, src/run_server.py: start_scraping stores a task      *)
(* record and starts a thread on run_scraping_task; the status endpoints   *)
(* read the globals while the threads write them.  Each step of a thread   *)
(* is one write of a global, or the calls between two writes.              *)
(***************************************************************************)
\* The configuration every task of the server model is submitted with.
TaskConfig ==
  [url |-> StrUrl(Url(1)), selectors |-> <<"h1">>, max_pages |-> 1, delay |-> 1,
   timeout |-> 30000, wait_for_selector |-> ""]

\* 'data': scraped_data[:100]
PreviewLimit == 100

\* len(scraped_data) of a scrape() that returned
ScrapedLens == {0, PreviewLimit + 1}

\* f"task_{int(time.time() * 1000)}"
task_id_of(now) == now

\* The request bodies: a usable one, one with no url (answered 400), and one
\* whose numbers int() / float() cannot convert (answered 500); the two that
\* are refused leave the globals as they are.
RequestInputs == {"ok", "no_url", "bad_number"}

ServerInit ==
  /\ Init
  /\ cfg = TaskConfig
  /\ usage = "run_scraping_task"

scraperVars ==
  <<cfg, usage, pc, playwright, browser, context, closes, pages, page, urls, idx,
    all_scraped_data, scraped_data, selIdx, exc, outcome, result, error,
    firstErr, visited, selFailed, closeCalls, callerCloses, trace, overlay,
    interactFailed, pageContext, reported, runs, closedContexts>>

\* time.time() moves on.
Tick ==
  /\ clock < MaxClock
  /\ clock' = clock + 1
  /\ UNCHANGED <<scraping_tasks, results_storage, threads, scraperVars>>

\* POST /api/scrape
start_scraping ==
  /\ \E req \in RequestInputs :
       IF req = "ok"
         THEN /\ Len(threads) < MaxTasks
              /\ scraping_tasks' =
                   (task_id_of(clock) :>
                      [status |-> "queued", progress |-> 0, error_message |-> ""])
                   @@ scraping_tasks
              /\ threads' =
                   Append(threads, [task_id |-> task_id_of(clock), at |-> "205",
                                    scraped |-> 0, error |-> ""])
         ELSE UNCHANGED <<scraping_tasks, threads>>
  /\ UNCHANGED <<clock, results_storage, scraperVars>>

At(t, line) == t \in 1..Len(threads) /\ threads[t].at = line

Goto(t, line) == threads' = [threads EXCEPT ![t].at = line]

\* scraping_tasks[task_id][key] = value
SetTask(t, key, value) ==
  scraping_tasks' = [scraping_tasks EXCEPT ![threads[t].task_id][key] = value]

\* The thread returns from run_scraping_task: its locals are gone.
Return(t) == threads' = [threads EXCEPT ![t].at = "done", ![t].scraped = 0,
                                          ![t].error = ""]

\* An exception that no handler catches: the thread ends.
TaskFails_uncaught(t, message) == Return(t)

\* str(e) of the exceptions of the libraries, and of the one raised at line 220
LibraryError == "error"

NoDataError == "No data was scraped from the target URL"

\* An exception raised inside run_scraping_task's try: loop.close() in the
\* inner finally, then the handler `except Exception` of line 248.
TaskFails(t, message) ==
  threads' = [threads EXCEPT ![t].at = "250", ![t].error = message]

\* scraping_tasks[task_id]['status'] = 'running'
SetRunning ==
  \E t \in 1..Len(threads) :
    /\ At(t, "205")
    /\ SetTask(t, "status", "running")
    /\ Goto(t, "206")
    /\ UNCHANGED <<clock, results_storage, scraperVars>>

\* scraping_tasks[task_id]['progress'] = 10
SetProgress10 ==
  \E t \in 1..Len(threads) :
    /\ At(t, "206")
    /\ SetTask(t, "progress", 10)
    /\ Goto(t, "215")
    /\ UNCHANGED <<clock, results_storage, scraperVars>>

\* scraper = PlaywrightScraper(config); loop.run_until_complete(scraper.scrape())
RunScrape ==
  \E t \in 1..Len(threads) :
    /\ At(t, "215")
    /\ \/ TaskFails(t, LibraryError)
       \/ \E n \in ScrapedLens :
            threads' = [threads EXCEPT ![t].at = "217", ![t].scraped = n]
    /\ UNCHANGED <<clock, scraping_tasks, results_storage, scraperVars>>

\* scraping_tasks[task_id]['progress'] = 70
SetProgress70 ==
  \E t \in 1..Len(threads) :
    /\ At(t, "217")
    /\ SetTask(t, "progress", 70)
    /\ Goto(t, "219")
    /\ UNCHANGED <<clock, results_storage, scraperVars>>

\* if not scraped_data: raise Exception("No data was scraped ...");
\* exporter.export(scraped_data, ...), which may raise
Export ==
  \E t \in 1..Len(threads) :
    /\ At(t, "219")
    /\ IF threads[t].scraped = 0
         THEN TaskFails(t, NoDataError)
         ELSE \E ok \in BOOLEAN :
                IF ok THEN Goto(t, "226") ELSE TaskFails(t, LibraryError)
    /\ UNCHANGED <<clock, scraping_tasks, results_storage, scraperVars>>

\* scraping_tasks[task_id]['progress'] = 90
SetProgress90 ==
  \E t \in 1..Len(threads) :
    /\ At(t, "226")
    /\ SetTask(t, "progress", 90)
    /\ Goto(t, "229")
    /\ UNCHANGED <<clock, results_storage, scraperVars>>

\* summary_stats = exporter.get_summary_stats(scraped_data), which may raise
Summary ==
  \E t \in 1..Len(threads) :
    /\ At(t, "229")
    /\ \E ok \in BOOLEAN :
         IF ok THEN Goto(t, "232") ELSE TaskFails(t, LibraryError)
    /\ UNCHANGED <<clock, scraping_tasks, results_storage, scraperVars>>

\* results_storage[task_id] = {'data': scraped_data[:100], 'total_items': ...}
StoreResults ==
  \E t \in 1..Len(threads) :
    /\ At(t, "232")
    /\ results_storage' =
         (threads[t].task_id :>
            [data |-> Min(threads[t].scraped, PreviewLimit),
             total_items |-> threads[t].scraped,
             export_file |-> threads[t].task_id])
         @@ results_storage
    /\ Goto(t, "240")
    /\ UNCHANGED <<clock, scraping_tasks, scraperVars>>

\* scraping_tasks[task_id]['status'] = 'completed'
SetCompleted ==
  \E t \in 1..Len(threads) :
    /\ At(t, "240")
    /\ SetTask(t, "status", "completed")
    /\ Goto(t, "241")
    /\ UNCHANGED <<clock, results_storage, scraperVars>>

\* scraping_tasks[task_id]['progress'] = 100; logger.info; loop.close()
SetProgress100 ==
  \E t \in 1..Len(threads) :
    /\ At(t, "241")
    /\ SetTask(t, "progress", 100)
    /\ Return(t)
    /\ UNCHANGED <<clock, results_storage, scraperVars>>

\* except Exception: scraping_tasks[task_id]['status'] = 'failed'
SetFailed ==
  \E t \in 1..Len(threads) :
    /\ At(t, "250")
    /\ SetTask(t, "status", "failed")
    /\ Goto(t, "251")
    /\ UNCHANGED <<clock, results_storage, scraperVars>>

\* scraping_tasks[task_id]['error_message'] = str(e)
SetErrorMessage ==
  \E t \in 1..Len(threads) :
    /\ At(t, "251")
    /\ SetTask(t, "error_message", threads[t].error)
    /\ Return(t)
    /\ UNCHANGED <<clock, results_storage, scraperVars>>

\* The steps of the background threads.
TaskNext ==
  \/ SetRunning
  \/ SetProgress10
  \/ RunScrape
  \/ SetProgress70
  \/ Export
  \/ SetProgress90
  \/ Summary
  \/ StoreResults
  \/ SetCompleted
  \/ SetProgress100
  \/ SetFailed
  \/ SetErrorMessage

ServerNext ==
  \/ Tick
  \/ start_scraping
  \/ TaskNext

ServerSpec == ServerInit /\ [][ServerNext]_vars

\* Every started thread is scheduled as long as it has a step to take.
ServerFairSpec == ServerSpec /\ WF_vars(TaskNext)

\* GET /api/status/<task_id>: what the response says.
get_task_status(task_id) ==
  IF task_id \notin DOMAIN scraping_tasks
    THEN [code |-> 404, status |-> "", progress |-> 0, error_message |-> ""]
    ELSE [code |-> 200,
          status |-> scraping_tasks[task_id].status,
          progress |-> scraping_tasks[task_id].progress,
          error_message |-> IF scraping_tasks[task_id].status = "failed"
                              THEN scraping_tasks[task_id].error_message
                              ELSE ""]

\* GET /api/results/<task_id>: what the response says.
get_task_results(task_id) ==
  CASE task_id \notin DOMAIN scraping_tasks -> "Task not found"
    [] task_id \in DOMAIN scraping_tasks
         /\ scraping_tasks[task_id].status # "completed" -> "Task not completed yet"
    [] task_id \in DOMAIN scraping_tasks
         /\ scraping_tasks[task_id].status = "completed"
         /\ task_id \notin DOMAIN results_storage -> "Results not found"
    [] OTHER -> "data"

ServerTypeOK ==
  /\ clock \in 0..MaxClock
  /\ Len(threads) <= MaxTasks
  /\ DOMAIN results_storage \subseteq DOMAIN scraping_tasks
  /\ \A t \in 1..Len(threads) : threads[t].task_id \in DOMAIN scraping_tasks

Next ==
  \/ AEnter
  \/ ScrapeEnter
  \/ NextUrl
  \/ Navigate
  \/ WaitForSelector
  \/ NetworkIdle
  \/ DismissOverlay
  \/ Interact
  \/ ExtractSelector
  \/ PacingDelay
  \/ PageClose
  \/ AfterPage
  \/ LoopDone
  \/ ScrapeFinally
  \/ AExit
  \/ CallerClose
  \/ MainReport
  \/ TaskReport

Spec == Init /\ [][Next]_vars

(***************************************************************************)
(* A scraper object used for more than one run: after scrape() returned or *)
(* raised, the caller calls scrape() on the same object again.             *)
(***************************************************************************)
ScrapeAgain ==
  /\ pc = "scrape_exit"
  /\ usage = "direct"
  /\ runs < MaxRuns
  /\ runs' = runs + 1
  /\ pc' = "start"
  /\ outcome' = "pending"
  /\ result' = <<>>
  /\ error' = ""
  /\ firstErr' = ""
  /\ UNCHANGED <<cfg, usage, playwright, browser, context, closes, pages, page,
                 urls, idx, all_scraped_data, scraped_data, selIdx, exc, visited,
                 selFailed, closeCalls, callerCloses, trace, overlay,
                 interactFailed, pageContext, reported, closedContexts,
                 serverVars>>

\* The requests of the runs that share a scraper object.
ReuseConfigs ==
  [url : {StrUrl(Url(1)), ListUrl(<<Url(1), Url(2)>>)}, selectors : {<<"h1">>},
   max_pages : {2}, delay : {1}, timeout : TimeoutInputs,
   wait_for_selector : {".ready"}]

ReuseInit ==
  /\ Init
  /\ cfg \in ReuseConfigs

ReuseNext ==
  \/ Next
  \/ ScrapeAgain

ReuseSpec == ReuseInit /\ [][ReuseNext]_vars

\* The event loop runs the coroutine whenever it has a step to take: every
\* awaited operation resolves or raises.
FairSpec == Spec /\ WF_vars(Next)

TypeOK ==
  /\ pc \in {"start", "with_body", "loop", "goto", "wait_for_selector",
             "networkidle", "interact", "extract", "page_finally",
             "page_returned", "scrape_finally", "scrape_exit", "done",
             "enter_failed"}
  /\ outcome \in {"pending", "returned", "raised"}
  /\ page \in 0..Len(pages)
  /\ overlay.pattern \in 0..(Len(cookie_selectors) + 1)
  /\ reported \in {"pending", "exit_0", "exit_1", "completed", "failed"}
  /\ Len(pageContext) = Len(pages)

(***************************************************************************)
(* Vocabulary of the properties.                                           *)
(***************************************************************************)
Configured == normalize_urls(cfg.url)

\* The request satisfies what ScrapingConfig.validate asks of the fields the
\* model carries: a url, a selector, delay >= 0, timeout > 0, max_pages > 0.
ValidRequest ==
  /\ Len(Configured) > 0
  /\ Len(cfg.selectors) > 0
  /\ cfg.delay >= 0
  /\ cfg.timeout > 0
  /\ cfg.max_pages > 0

\* scrape() has returned or raised.
Exited == pc \in {"scrape_exit", "done"}

InVisit ==
  pc \in {"goto", "wait_for_selector", "networkidle", "interact", "extract",
          "page_finally"}

OpenPages == {p \in 1..Len(pages) : pages[p] = 0}

CountEv(e) == Cardinality({i \in 1..Len(trace) : trace[i].ev = e})

HandleKinds == {"context", "browser", "playwright"}

StructuralKeys == {"url", "selector", "index", "timestamp"}

Key(r) == <<r.url, r.selector, r.index>>

KeysOf(records) == [i \in 1..Len(records) |-> Key(records[i])]

\* Does extracting the element give a record (a non-empty dict)?
Yields(el, url) == Truthy(extract_element_data(el, "", 0, url, 0))

\* The keys of the records of one selector's match set, in match order.
RECURSIVE SelectorKeys(_, _, _)
SelectorKeys(url, selector, i) ==
  LET elements == Content(url, selector)
  IN IF i > Len(elements)
       THEN <<>>
       ELSE (IF Yields(elements[i], url) THEN <<(<<url, selector, i - 1>>)>>
                                         ELSE <<>>)
            \o SelectorKeys(url, selector, i + 1)

\* The keys of the records of visit v, selector by selector from position s.
RECURSIVE VisitKeys(_, _)
VisitKeys(v, s) ==
  IF s > Len(cfg.selectors)
    THEN <<>>
    ELSE (IF <<v, s>> \in selFailed THEN <<>>
                                    ELSE SelectorKeys(visited[v], cfg.selectors[s], 1))
         \o VisitKeys(v, s + 1)

\* The keys of the records of the visits from v on.
RECURSIVE RunKeys(_)
RunKeys(v) == IF v > Len(visited) THEN <<>> ELSE VisitKeys(v, 1) \o RunKeys(v + 1)

\* An element with no text, no markup and no attribute at all.
IsEmptyElement(el) ==
  /\ ~el.broken
  /\ el.text = <<>>
  /\ el.html = <<>>
  /\ DOMAIN el.attrs = {}

(***************************************************************************)
(* Properties.                                                             *)
(***************************************************************************)

\* C1: with N configured URLs (a single str counts as one) and max_pages
\* M > 0, the URLs navigated to are at every moment the first ones of the
\* input, in input order, and a run in which nothing failed has navigated to
\* exactly the first min(N, M) of them, each once.
C1_VisitsFirstMinNM ==
  cfg.max_pages > 0 =>
    /\ Len(visited) <= Min(Len(Configured), cfg.max_pages)
    /\ \A i \in 1..Len(visited) : visited[i] = Configured[i]
    /\ (Exited /\ firstErr = "") =>
         Len(visited) = Min(Len(Configured), cfg.max_pages)

C1_Witness ==
  /\ Exited
  /\ firstErr = ""
  /\ Len(Configured) = 3
  /\ cfg.max_pages = 2
  /\ visited = <<Configured[1], Configured[2]>>

\* C2: once scrape() has left a session that was opened, close() has run
\* exactly once on the scraper's own account (the caller's explicit calls
\* aside), and this still holds when the with statement has been left.
C2_SessionClosedExactlyOnce ==
  (ValidRequest /\ Exited /\ context # 0) => closeCalls - callerCloses = 1

\* C3: no context, browser or driver handle is closed more than once.
C3_NoHandleClosedTwice ==
  \A k \in HandleKinds : \A h \in 1..Len(closes[k]) : closes[k][h] <= 1

\* C4: outside a visit no page handle is open: every page acquired has had
\* page.close() called on it, once, whether the visit returned or raised.
C4_PageReleasedOnEveryExit ==
  ~InVisit => \A p \in 1..Len(pages) : pages[p] = 1

C4_Witness ==
  /\ pc = "scrape_finally"
  /\ exc = "wait_for_selector_timeout"
  /\ Len(pages) = 2
  /\ pages[2] = 1

\* C5: at most one page handle is open, and it is the one acquired last: the
\* pages of the earlier URLs were closed before it was acquired.
C5_VisitsSerial ==
  /\ Cardinality(OpenPages) <= 1
  /\ \A p \in 1..Len(pages) : p < Len(pages) => pages[p] >= 1

C5_Witness ==
  /\ pc = "extract"
  /\ Len(pages) = 2
  /\ OpenPages = {2}

\* C6: when the first failure of a run is a navigation failure or a
\* selector-wait timeout, scrape() raises that error, returns no record,
\* has navigated to no URL after the failing one, and has closed the session.
C6_PageFailureAbortsRun ==
  (ValidRequest /\ Exited
     /\ firstErr \in {"goto_failed", "wait_for_selector_timeout"}) =>
    /\ outcome = "raised"
    /\ error = firstErr
    /\ result = <<>>
    /\ Len(visited) = idx + 1
    /\ closeCalls >= 1

\* C7: a run that has ended slept config.delay once between each two
\* consecutive navigations and at no other time: one sleep fewer than URLs
\* navigated to, none when one URL or no URL was navigated to.
C7_DelayOnlyBetweenNavigations ==
  (ValidRequest /\ Exited) => CountEv("sleep") = Max(Len(visited) - 1, 0)

\* C8: an exception of page.close() or of the session's close never reaches
\* the caller of scrape(): a run whose only failure is a close failure
\* returns its records, and a run with an earlier error raises that error.
C8_CloseFailureNeverPropagates ==
  (ValidRequest /\ Exited) =>
    /\ error # "page_close_failed"
    /\ firstErr = "page_close_failed" => outcome = "returned"
    /\ firstErr \notin {"", "page_close_failed"} => error = firstErr

C10_EmptyElementDropped ==
  (ValidRequest /\ outcome = "returned") =>
    \A v \in 1..Len(visited) : \A s \in 1..Len(cfg.selectors) :
      LET elements == Content(visited[v], cfg.selectors[s])
      IN \A i \in 1..Len(elements) :
           IsEmptyElement(elements[i]) =>
             \A j \in 1..Len(result) :
               Key(result[j]) # <<visited[v], cfg.selectors[s], i - 1>>

\* C11: in every record of the returned list an optional field is present
\* only when it is non-empty: text and html are not the empty string (so
\* they are absent for white-space-only content), attributes and
\* data_attributes are not the empty map.
C11_OptionalFieldsNonEmpty ==
  (ValidRequest /\ outcome = "returned") =>
    \A j \in 1..Len(result) :
      /\ "text" \in DOMAIN result[j] => result[j].text # <<>>
      /\ "html" \in DOMAIN result[j] => result[j].html # <<>>
      /\ "attributes" \in DOMAIN result[j] => Truthy(result[j].attributes)
      /\ "data_attributes" \in DOMAIN result[j] =>
           Truthy(result[j].data_attributes)

\* Every configured selector matches no element on every page navigated to.
ZeroMatch ==
  \A v \in 1..Len(visited) : \A s \in 1..Len(cfg.selectors) :
    Content(visited[v], cfg.selectors[s]) = <<>>

\* C12: a run whose pages load and whose selectors match nothing returns the
\* empty list, and the layer that invoked it does not report an error.
C12_ZeroMatchSucceeds ==
  (ValidRequest /\ Exited /\ firstErr = "" /\ ZeroMatch) =>
    /\ outcome = "returned"
    /\ result = <<>>
    /\ reported \notin {"exit_1", "failed"}

\* C13: a run ends either with a non-empty list and no error, or with no
\* record and one error, the first failure of the run.
C13_NonEmptyResultOrFirstError ==
  (ValidRequest /\ Exited) =>
    \/ outcome = "returned" /\ Truthy(result) /\ error = ""
    \/ outcome = "raised" /\ result = <<>> /\ error # "" /\ error = firstErr

\* C14: every step that leaves handle_page_interactions enters the loop over
\* the selectors with no exception in flight, whatever raised inside.
C14_InteractionsNeverRaise ==
  [][(pc = "interact" /\ pc' # "interact") =>
       (pc' = "extract" /\ exc' = "" /\ selIdx' = 1)]_vars

C14_Witness ==
  /\ pc = "extract"
  /\ selIdx = 1
  /\ interactFailed

RecordsOf(selector) == SelectSeq(scraped_data, LAMBDA r : r.selector = selector)

\* The current visit has come to its loop over the selectors.
Extracting ==
  \/ pc = "extract"
  \/ pc \in {"page_finally", "page_returned"} /\ firstErr = ""

\* C16: a selector whose lookup raised leaves no record and no exception;
\* every selector handled so far whose lookup did not raise, before or after
\* it, has all its records, and the loop comes to every configured selector.
C16_SelectorFailureIsolated ==
  Extracting =>
    /\ exc = ""
    /\ pc # "extract" => selIdx = Len(cfg.selectors) + 1
    /\ \A s \in 1..(selIdx - 1) :
         IF <<idx + 1, s>> \in selFailed
           THEN RecordsOf(cfg.selectors[s]) = <<>>
           ELSE Len(RecordsOf(cfg.selectors[s]))
                  = Len(SelectorKeys(CurrentUrl, cfg.selectors[s], 1))

C16_Witness ==
  /\ pc = "page_returned"
  /\ cfg.selectors = <<"a", "h1">>
  /\ <<idx + 1, 1>> \in selFailed
  /\ <<idx + 1, 2>> \notin selFailed
  /\ Len(scraped_data) = 1

\* C17: within a selector whose lookup succeeded, an element has a record,
\* under its own position, exactly when its extraction did not raise: the
\* elements before and after a failing one keep theirs.
C17_ElementFailureIsolated ==
  Extracting =>
    /\ exc = ""
    /\ \A s \in 1..(selIdx - 1) :
         <<idx + 1, s>> \notin selFailed =>
           LET elements == Content(CurrentUrl, cfg.selectors[s])
           IN \A i \in 1..Len(elements) :
                (\E j \in 1..Len(scraped_data) :
                   Key(scraped_data[j]) = <<CurrentUrl, cfg.selectors[s], i - 1>>)
                  <=> ~elements[i].broken

C17_Witness ==
  /\ pc = "extract"
  /\ selIdx = 2
  /\ cfg.selectors[1] = "a"
  /\ FirstLayout(CurrentUrl)
  /\ selFailed = {}
  /\ Len(scraped_data) = 3
  /\ scraped_data[1].index = 1

\* The operations that may follow operation e of a visit.
StageNext(e) ==
  CASE e = "goto" ->
         IF cfg.wait_for_selector # "" THEN {"wait_for_selector", "page_close"}
                                       ELSE {"networkidle", "page_close"}
    [] e = "wait_for_selector" -> {"networkidle", "page_close"}
    [] e = "networkidle" -> {"interact", "page_close"}
    [] e = "interact" -> {"query_selector_all"}
    [] e = "query_selector_all" -> {"query_selector_all", "pacing"}
    [] e = "pacing" -> {"page_close"}
    [] OTHER -> {"initialize_browser", "new_page", "goto", "page_close", "sleep",
                 "close"}

\* The operation of the visit whose failure is the first failure of the run.
FailedStage ==
  CASE firstErr = "goto_failed" -> "goto"
    [] firstErr = "wait_for_selector_timeout" -> "wait_for_selector"
    [] OTHER -> ""

\* C18: the operations of a visit follow the order new_page, goto,
\* wait_for_selector (when configured), networkidle, interactions, one lookup
\* per selector, pacing delay, page.close(); a failing stage is followed by
\* page.close() only.  After a failed navigation or selector wait nothing but
\* closing happens, no URL is navigated to twice, and the pacing delay comes
\* after the lookup of the last selector.
C18_StagesInOrder ==
  /\ \A i \in 1..(Len(trace) - 1) :
       /\ trace[i + 1].ev \in StageNext(trace[i].ev)
       /\ (trace[i].ev = "new_page" /\ trace[i].arg # 0) => trace[i + 1].ev = "goto"
       /\ trace[i + 1].ev = "pacing" => trace[i].arg = Len(cfg.selectors)
       /\ trace[i + 1].ev = "goto" => trace[i].ev = "new_page"
  /\ \A i, j \in 1..Len(trace) :
       (i < j /\ trace[i].ev = "goto" /\ trace[j].ev = "goto") =>
         trace[i].arg < trace[j].arg
  /\ firstErr \in {"goto_failed", "wait_for_selector_timeout"} =>
       /\ scraped_data = <<>>
       /\ \A i, j \in 1..Len(trace) :
            (i < j /\ trace[i].ev = FailedStage /\ trace[i].arg = idx + 1) =>
              trace[j].ev \in {"page_close", "close"}

C18_Witness ==
  /\ pc = "page_returned"
  /\ cfg.wait_for_selector # ""
  /\ Len(cfg.selectors) = 2
  /\ Len(visited) = 1
  /\ CountEv("pacing") = 1
  /\ CountEv("query_selector_all") = 2
  /\ CountEv("wait_for_selector") = 1

OpenFailures == InitOutcomes \ {"ok"}

\* C19: when initialize_browser fails, the run raises that error; the open
\* was attempted once, no page was acquired and no URL navigated to.
C19_OpenFailureAbortsRun ==
  firstErr \in OpenFailures =>
    /\ outcome = "raised"
    /\ error = firstErr
    /\ CountEv("initialize_browser") = 1
    /\ pages = <<>>
    /\ visited = <<>>
    /\ CountEv("new_page") = 0

C19_Witness ==
  /\ pc = "scrape_exit"
  /\ firstErr = "new_context_failed"
  /\ browser # 0
  /\ context = 0

\* C20: a run creates at most one browser and one context, also when the
\* with statement had opened the scraper before scrape() was called, and
\* every page is opened in that context.
C20_OneBrowserOneContext ==
  /\ Len(closes.browser) <= 1
  /\ Len(closes.context) <= 1
  /\ CountEv("initialize_browser") <= 1
  /\ \A p \in 1..Len(pageContext) : pageContext[p] = context /\ context = 1

C20_Witness ==
  /\ usage = "async_with"
  /\ pc = "goto"
  /\ Len(pages) = 2
  /\ pageContext = <<1, 1>>

\* C23: no session is opened by main or by run_scraping_task for a request
\* that violates the ScrapeRequest invariant.
C23_RequestValidatedBeforeOpen ==
  (usage \in {"main", "run_scraping_task"} /\ CountEv("initialize_browser") > 0)
    => ValidRequest

\* scrape(), or the with statement around it, has handed its caller a result
\* or an exception.
Terminated == pc \in {"scrape_exit", "done", "enter_failed"}

\* C24: when every awaited operation resolves or raises, every run comes to
\* return a result or raise an error.
C24_RunTerminates == <>Terminated

C24_Witness ==
  /\ pc = "scrape_exit"
  /\ outcome = "returned"
  /\ Len(visited) = MaxUrls
  /\ cfg.wait_for_selector # ""
  /\ CountEv("query_selector_all") = 2 * MaxUrls

\* The value the claim gives for a reference found on the page at url.
Resolved(url, ref) ==
  CASE ref.kind = "abs"  -> [origin |-> ref.origin, path |-> ref.path]
    [] ref.kind = "root" -> [origin |-> url.origin, path |-> ref.path]
    [] OTHER -> [origin |-> url.origin,
                 path |-> SubSeq(url.path, 1, Len(url.path) - 1) \o ref.path]

\* Record r carries under key the reference ref resolved, or no such key when
\* ref is absent or empty.
CarriesResolved(r, key, ref) ==
  IF ref.kind = "empty"
    THEN key \notin DOMAIN r
    ELSE /\ key \in DOMAIN r
         /\ r[key] = Resolved(r.url, ref)
         /\ r[key].origin # ""
         /\ (ref.kind # "abs" => r[key].origin = r.url.origin)

\* The element a record was extracted from.
ElementOf(r) == Content(r.url, r.selector)[r.index + 1]

\* C25: in every record the link (image-source) field is the element's href
\* (src) resolved against the URL of the visit, an absolute value kept and a
\* relative one placed on the page's origin; the field is absent when the
\* attribute is absent or empty.
C25_LinksResolvedAgainstPage ==
  \A records \in {all_scraped_data, scraped_data, result} :
    \A i \in 1..Len(records) :
      /\ CarriesResolved(records[i], "link",
                         get_attribute(ElementOf(records[i]), "href"))
      /\ CarriesResolved(records[i], "image_src",
                         get_attribute(ElementOf(records[i]), "src"))

C25_Witness ==
  /\ pc = "scrape_exit"
  /\ cfg.selectors = <<"img", "a">>
  /\ Len(visited) >= 2
  /\ \E i, j, k, l \in 1..Len(result) :
       /\ "link" \in DOMAIN result[i]
       /\ result[i].link = [origin |-> Origin, path |-> <<"p", "1">>]
       /\ "link" \in DOMAIN result[j]
       /\ result[j].link = [origin |-> OtherOrigin, path |-> <<"q">>]
       /\ "link" \in DOMAIN result[k]
       /\ result[k].link = [origin |-> Origin, path |-> <<"a", "r">>]
       /\ "image_src" \in DOMAIN result[l]
       /\ result[l].image_src = [origin |-> Origin, path |-> <<"a", "i.png">>]
       /\ "link" \notin DOMAIN result[l]

C27_FailedOpenLeavesNothingOpen ==
  (ValidRequest /\ usage # "async_with" /\ pc = "scrape_exit"
     /\ firstErr \in OpenFailures) =>
    /\ playwright # 0 => closes.playwright[playwright] >= 1
    /\ browser # 0 => closes.browser[browser] >= 1

(***************************************************************************)
(* The control layer's properties.                                         *)
(***************************************************************************)
Terminal == {"completed", "failed"}

StatusRank(status) ==
  CASE status = "queued" -> 0
    [] status = "running" -> 1
    [] OTHER -> 2

\* The task record of thread t.
TaskOf(t) == scraping_tasks[threads[t].task_id]

\* C21: in every step a task's status does not move backwards, a status of
\* completed or failed stays, and the progress does not decrease; in every
\* state the progress is 100 exactly when the status is completed.
C21_StatusMovesForward ==
  [][\A id \in DOMAIN scraping_tasks :
       /\ StatusRank(scraping_tasks'[id].status) >= StatusRank(scraping_tasks[id].status)
       /\ scraping_tasks[id].status \in Terminal =>
            scraping_tasks'[id].status = scraping_tasks[id].status
       /\ scraping_tasks'[id].progress >= scraping_tasks[id].progress
       /\ scraping_tasks'[id].progress = 100 <=>
            scraping_tasks'[id].status = "completed"]_vars

\* C22: any two runs the server accepted have distinct task ids, and with
\* them distinct task records and result entries, so that the writes of one
\* thread never land in the record of another.
C22_RunsIndependent ==
  \A t, u \in 1..Len(threads) : t # u => threads[t].task_id # threads[u].task_id

\* C28: whenever a task's status is completed its result entry is stored,
\* with a preview of at most 100 records and the full count, and the results
\* endpoint does not answer 'Results not found'; whenever a task's status is
\* failed the status endpoint has an error message to give.
C28_TerminalStatusHasItsData ==
  \A id \in DOMAIN scraping_tasks :
    /\ scraping_tasks[id].status = "completed" =>
         /\ id \in DOMAIN results_storage
         /\ results_storage[id].data <= PreviewLimit
         /\ results_storage[id].data <= results_storage[id].total_items
         /\ results_storage[id].total_items > 0
         /\ get_task_results(id) = "data"
    /\ scraping_tasks[id].status = "failed" =>
         get_task_status(id).error_message # ""

\* C29: every task the server accepted comes to the status completed or
\* failed, when its thread is scheduled and scrape() terminates.
C29_TaskReachesTerminalStatus ==
  \A t \in 1..MaxTasks :
    (Len(threads) >= t) ~> (Len(threads) >= t /\ TaskOf(t).status \in Terminal)

C29_Witness ==
  /\ Len(threads) >= 2
  /\ threads[1].at = "done"
  /\ threads[2].at = "done"
  /\ TaskOf(1).status = "failed"
  /\ TaskOf(1).error_message = LibraryError
  /\ TaskOf(1).progress = 90
  /\ TaskOf(2).status = "completed"
  /\ TaskOf(2).progress = 100

====
